---- MODULE Spec2Model ----
(***************************************************************************)
(* Zeno Query Exporter: the /metrics request handler (both main variants), *)
(* runJob and writeMetric, as a state machine.                             *)
(*                                                                         *)
(* Go maps are modelled as TLA+ functions; "range" over a map visits the   *)
(* keys in an order the runtime picks, so every loop over a map takes the  *)
(* visiting order as an input.  A nil map is the record NilMap, a non-nil  *)
(* one is [nil |-> FALSE, m |-> f].                                        *)
(***************************************************************************)
EXTENDS Integers, Sequences, FiniteSets, TLC

(***************************************************************************)
(* Bounds of the model.                                                    *)
(***************************************************************************)
\* translations of one row that the row specification performs
MaxRuns == 2
\* writeMetric calls in the writer specification
MaxWrites == 2
\* rows the query client delivers to one iteration
MaxRows == 2
\* requests served one after the other in the request specification
MaxServed == 2
\* concurrent requests in the concurrency specification
NumReq == 2

(***************************************************************************)
(* Generic helpers.                                                        *)
(***************************************************************************)
EmptyMap == [x \in {} |-> ""]

NilMap == [nil |-> TRUE, m |-> EmptyMap]

MkMap(f) == [nil |-> FALSE, m |-> f]

Put(f, k, v) == [x \in (DOMAIN f) \cup {k} |-> IF x = k THEN v ELSE f[x]]

\* the orders in which a range loop may visit the keys of a map
Orders(S) ==
  {o \in [1..Cardinality(S) -> S] : \A i, j \in 1..Cardinality(S) : o[i] = o[j] => i = j}

(***************************************************************************)
(* Scalars of a row key and their %v string form.                          *)
(***************************************************************************)
IntV(n) == [kind |-> "int", i |-> n, s |-> ""]

StrV(t) == [kind |-> "str", i |-> 0, s |-> t]

\* fmt.Sprintf("%v", value)
Sprintv(value) == IF value.kind = "int" THEN ToString(value.i) ELSE value.s

\* fmt's %f of an integral float64: fixed point, six decimals
Sprintf_f(n) == ToString(n) \o ".000000"

(***************************************************************************)
(* Metric descriptors.                                                     *)
(***************************************************************************)
Gauge == "gauge"

Counter == "counter"

Metric(name, help, type, extra) ==
  [Name |-> name, Help |-> help, Type |-> type, ExtraLabels |-> extra]

metricTotalPartitions ==
  Metric("zeno_query_exporter_zeno_partitions_total", "", Gauge, NilMap)

metricMissingPartitions ==
  Metric("zeno_query_exporter_zeno_partitions_missing", "", Gauge, NilMap)

MapLen(mp) == Cardinality(DOMAIN mp.m)

(***************************************************************************)
(* writeMetric.  The output stream is a sequence of lines.  labels is the  *)
(* label map (name -> [v, src]); lorder and eorder are the orders in which *)
(* the two range loops visit labels and meta.ExtraLabels.                  *)
(***************************************************************************)
HelpLine(meta) == [kind |-> "HELP", name |-> meta.Name, text |-> meta.Help]

TypeLine(meta) == [kind |-> "TYPE", name |-> meta.Name, text |-> meta.Type]

Pair(n, v) == [n |-> n, v |-> v]

hasLabelNoExtra(labels, meta) == Cardinality(DOMAIN labels) > 0

hasLabel(labels, meta) ==
  Cardinality(DOMAIN labels) > 0 \/ MapLen(meta.ExtraLabels) > 0

LabelBlock(labels, lorder, meta, eorder) ==
  [i \in 1..Len(lorder) |-> Pair(lorder[i], labels[lorder[i]].v)]
  \o [i \in 1..Len(eorder) |-> Pair(eorder[i], meta.ExtraLabels.m[eorder[i]])]

SampleLine(metric, timestampMs, meta, labels, lorder, eorder) ==
  [kind |-> "SAMPLE", name |-> meta.Name,
   braces |-> hasLabel(labels, meta),
   block |-> IF hasLabel(labels, meta)
               THEN LabelBlock(labels, lorder, meta, eorder) ELSE << >>,
   value |-> Sprintf_f(metric), ts |-> timestampMs]

writeMetric(out, metric, timestampMs, meta, labels, lorder, eorder) ==
  out \o << HelpLine(meta), TypeLine(meta),
            SampleLine(metric, timestampMs, meta, labels, lorder, eorder) >>

(***************************************************************************)
(* runJob, lines 82-87: ignoreDims folded into the rename map.  A nil map  *)
(* is replaced by a fresh one first.                                       *)
(***************************************************************************)
RECURSIVE FoldFrom(_, _, _)
FoldFrom(f, ignoreDims, i) ==
  IF i > Len(ignoreDims) THEN f
  ELSE FoldFrom(Put(f, ignoreDims[i], ""), ignoreDims, i + 1)

FoldIgnoreDims(renameDims, ignoreDims) == FoldFrom(renameDims.m, ignoreDims, 1)

(***************************************************************************)
(* runJob, lines 106-117: the label map of one row.  order is the order in *)
(* which range visits row.Key.AsMap().  A label remembers the dimension    *)
(* that wrote it (src), which the program does not keep.                   *)
(***************************************************************************)
Lab(vs, dim) == [v |-> vs, src |-> dim]

MapDimKeepIgnored(labels, rename, dim, value) ==
  IF dim \in DOMAIN rename /\ rename[dim] # ""
    THEN Put(labels, rename[dim], Lab(Sprintv(value), dim))
    ELSE Put(labels, dim, Lab(Sprintv(value), dim))

MapDim(labels, rename, dim, value) ==
  IF dim \in DOMAIN rename
    THEN IF rename[dim] # ""
           THEN Put(labels, rename[dim], Lab(Sprintv(value), dim))
           ELSE labels
    ELSE Put(labels, dim, Lab(Sprintv(value), dim))

RECURSIVE RowLabelsFrom(_, _, _, _, _)
RowLabelsFrom(labels, rename, key, order, i) ==
  IF i > Len(order) THEN labels
  ELSE RowLabelsFrom(MapDim(labels, rename, order[i], key[order[i]]),
                     rename, key, order, i + 1)

RowLabels(rename, key, order) ==
  RowLabelsFrom([x \in {} |-> Lab("", "")], rename, key, order, 1)

(***************************************************************************)
(* runJob, lines 118-129: idxToMetric and the fan-out of one row.  lorder  *)
(* is the visiting order of the label map in writeMetric; eorders gives    *)
(* one for the ExtraLabels of each metric.                                 *)
(***************************************************************************)
IdxToMetric(fieldNames, metrics) ==
  [idx \in {i \in 1..Len(fieldNames) : fieldNames[i] \in DOMAIN metrics}
     |-> metrics[fieldNames[idx]]]

RECURSIVE WriteRowFrom(_, _, _, _, _, _, _)
WriteRowFrom(out, row, idxToMetric, labels, lorder, eorders, i) ==
  IF i > Len(row.Values) THEN out
  ELSE IF i \in DOMAIN idxToMetric
    THEN WriteRowFrom(
           writeMetric(out, row.Values[i], row.TS \div 1000000, idxToMetric[i],
                       labels, lorder, eorders[idxToMetric[i].Name]),
           row, idxToMetric, labels, lorder, eorders, i + 1)
    ELSE WriteRowFrom(out, row, idxToMetric, labels, lorder, eorders, i + 1)

WriteRow(out, row, fieldNames, metrics, labels, lorder, eorders) ==
  WriteRowFrom(out, row, IdxToMetric(fieldNames, metrics), labels, lorder, eorders, 1)

\* one visiting order for the ExtraLabels of every metric of a job
ExtraOrders(metrics) ==
  {eo \in [{metrics[f].Name : f \in DOMAIN metrics} -> UNION {Orders(DOMAIN metrics[f].ExtraLabels.m) : f \in DOMAIN metrics}] :
     \A f \in DOMAIN metrics : eo[metrics[f].Name] \in Orders(DOMAIN metrics[f].ExtraLabels.m)}

(***************************************************************************)
(* State.  The request machine (variant .. served), the translation of one *)
(* row (tr) and a sequence of writeMetric calls (wr).                      *)
(***************************************************************************)
VARIABLES variant, jobs, fatal, pc, rq, resp, job, ctx, run, served, tr, wr

vars == << variant, jobs, fatal, pc, rq, resp, job, ctx, run, served, tr, wr >>

reqVars == << variant, jobs, fatal, pc, rq, resp, job, ctx, run, served >>

(***************************************************************************)
(* Inputs of the row and writer specifications.                            *)
(***************************************************************************)
Dims == {"a", "b"}

\* rename targets; "" drops the dimension
LabelNames == {"", "a", "b"}

KeyValues == {IntV(1), IntV(2), StrV("1")}

MetricX == Metric("x", "h", Gauge, NilMap)

MetricY == Metric("y", "", Gauge, MkMap(EmptyMap))

MetricZ == Metric("z", "hz", Counter, MkMap([e \in {"e1", "e2"} |-> IF e = "e1" THEN "p" ELSE "q"]))

RowMetrics == [f \in {"f1", "f2"} |-> IF f = "f1" THEN MetricX ELSE MetricZ]

MapsOver(K, V) == UNION {[S -> V] : S \in SUBSET K}

RenameChoices == {NilMap} \cup {MkMap(f) : f \in MapsOver(Dims, LabelNames)}

IgnoreChoices == {<< >>, <<"a">>, <<"b">>, <<"a", "b">>}

FieldNameChoices == {<<"f1">>, <<"f1", "f2">>, <<"other", "f2">>}

RowChoices(fieldNames) ==
  {[Key |-> k, Values |-> [i \in 1..Len(fieldNames) |-> 2 + i], TS |-> 1500000000]
     : k \in MapsOver(Dims, KeyValues)}

reqIdle ==
  /\ variant = "jobsdir"
  /\ jobs = EmptyMap
  /\ fatal = FALSE
  /\ pc = << >>
  /\ rq = << >>
  /\ resp = << >>
  /\ job = << >>
  /\ ctx = << >>
  /\ run = << >>
  /\ served = 0

(***************************************************************************)
(* Row specification: one job, one result row, translated MaxRuns times by *)
(* successive runs of runJob (lines 82-87 and the row callback, 106-130).  *)
(***************************************************************************)
InitRow ==
  /\ reqIdle
  /\ wr = [out |-> << >>, calls |-> << >>]
  /\ \E rd \in RenameChoices, ig \in IgnoreChoices, fn \in FieldNameChoices :
       \E row \in RowChoices(fn) :
         tr = [job0 |-> [IgnoreDims |-> ig, RenameDims |-> rd, Metrics |-> RowMetrics],
               RenameDims |-> rd, md |-> fn, row |-> row, runs |-> << >>]

TranslateRow ==
  /\ Len(tr.runs) < MaxRuns
  /\ LET eff == FoldIgnoreDims(tr.RenameDims, tr.job0.IgnoreDims) IN
     \E order \in Orders(DOMAIN tr.row.Key), eorders \in ExtraOrders(RowMetrics) :
       LET labels == RowLabels(eff, tr.row.Key, order) IN
       \E lorder \in Orders(DOMAIN labels) :
         tr' = [tr EXCEPT
                  \* a non-nil rename map is the job's own map, written in place
                  !.RenameDims = IF tr.RenameDims.nil THEN NilMap ELSE MkMap(eff),
                  !.runs = Append(@, [labels |-> labels,
                                      out |-> WriteRow(<< >>, tr.row, tr.md, RowMetrics,
                                                       labels, lorder, eorders)])]
  /\ UNCHANGED << reqVars, wr >>

NextRow == TranslateRow

SpecRow == InitRow /\ [][NextRow]_vars

(***************************************************************************)
(* Writer specification: a sequence of writeMetric calls on one stream.    *)
(***************************************************************************)
WriterMetas == {MetricX, MetricY, MetricZ}

WriterLabels ==
  {[x \in {} |-> Lab("", "")],
   [x \in {"a"} |-> Lab("1", "a")],
   [x \in {"a", "b"} |-> IF x = "a" THEN Lab("1", "a") ELSE Lab("2", "b")]}

InitWriter ==
  /\ reqIdle
  /\ tr = [runs |-> << >>]
  /\ wr = [out |-> << >>, calls |-> << >>]

WriteMetricCall ==
  /\ Len(wr.calls) < MaxWrites
  /\ \E meta \in WriterMetas, labels \in WriterLabels, metric \in {0, 3}, ts \in {0, 1000} :
       \E lorder \in Orders(DOMAIN labels), eorder \in Orders(DOMAIN meta.ExtraLabels.m) :
         wr' = [out |-> writeMetric(wr.out, metric, ts, meta, labels, lorder, eorder),
                calls |-> Append(wr.calls, [meta |-> meta, labels |-> labels,
                                            metric |-> metric, ts |-> ts])]
  /\ UNCHANGED << reqVars, tr >>

NextWriter == WriteMetricCall

SpecWriter == InitWriter /\ [][NextWriter]_vars

(***************************************************************************)
(* Query templates (text/template).  A template is a sequence of tokens:   *)
(* literal text, {{.k}}, {{.k.x}} (a field of a string: fails when it is   *)
(* executed) and an action that is never closed (fails when it is parsed). *)
(***************************************************************************)
Text(t) == [kind |-> "text", s |-> t]

Field(k) == [kind |-> "field", s |-> k]

Chain(k) == [kind |-> "chain", s |-> k]

Unclosed == [kind |-> "unclosed", s |-> ""]

TokSource(tok) ==
  CASE tok.kind = "text" -> tok.s
    [] tok.kind = "field" -> "{{." \o tok.s \o "}}"
    [] tok.kind = "chain" -> "{{." \o tok.s \o ".x}}"
    [] OTHER -> "{{"

\* job.Query: the template as the configuration file has it
RECURSIVE TplSource(_)
TplSource(tpl) ==
  IF tpl = << >> THEN "" ELSE TokSource(Head(tpl)) \o TplSource(Tail(tpl))

\* template.New("").Parse(job.Query) returns an error
ParseFails(tpl) == \E i \in 1..Len(tpl) : tpl[i].kind = "unclosed"

\* t.Execute(&buf, params) returns an error
ExecuteFails(tpl, params) == \E i \in 1..Len(tpl) : tpl[i].kind = "chain"

RECURSIVE Execute(_, _)
Execute(tpl, params) ==
  IF tpl = << >> THEN ""
  ELSE (IF Head(tpl).kind = "text" THEN Head(tpl).s
        ELSE IF Head(tpl).s \in DOMAIN params THEN params[Head(tpl).s]
        ELSE "<no value>") \o Execute(Tail(tpl), params)

\* runJob, lines 88-100: the query to submit, or the error returned
RenderQueryAlways(tpl, params) ==
  IF ParseFails(tpl) \/ ExecuteFails(tpl, params)
    THEN [err |-> TRUE, query |-> "", rendered |-> TRUE]
    ELSE [err |-> FALSE, query |-> Execute(tpl, params), rendered |-> TRUE]

RenderQuery(tpl, params) ==
  IF Cardinality(DOMAIN params) > 0
    THEN IF ParseFails(tpl) \/ ExecuteFails(tpl, params)
           THEN [err |-> TRUE, query |-> "", rendered |-> TRUE]
           ELSE [err |-> FALSE, query |-> Execute(tpl, params), rendered |-> TRUE]
    ELSE [err |-> FALSE, query |-> TplSource(tpl), rendered |-> FALSE]

(***************************************************************************)
(* The job table (main.go, jobs / config.Jobs) after loading.              *)
(***************************************************************************)
Job(query, ignoreDims, renameDims, metrics) ==
  [Query |-> query, IgnoreDims |-> ignoreDims, RenameDims |-> renameDims,
   Metrics |-> metrics]

\* the zero Job that a map lookup returns for an absent name
ZeroJob == Job(<< >>, << >>, NilMap, [f \in {} |-> MetricX])

LoadedJobs ==
  [n \in {"daily", "broken", "deep"} |->
     CASE n = "daily" ->
            Job(<< Text("SELECT "), Field("region") >>, <<"a">>,
                MkMap([d \in {"b"} |-> "c"]), [f \in {"f1"} |-> MetricX])
       [] n = "broken" ->
            Job(<< Text("SELECT "), Unclosed >>, <<"a">>, NilMap,
                [f \in {"f1", "f2"} |-> IF f = "f1" THEN MetricX ELSE MetricZ])
       [] OTHER ->
            Job(<< Text("SELECT "), Chain("region") >>, << >>, NilMap,
                [f \in {} |-> MetricX])]

(***************************************************************************)
(* The request: req.URL.Query(), a map from keys to lists of values.       *)
(***************************************************************************)
\* url.Values.Get
Get(q, k) == IF k \in DOMAIN q THEN q[k][1] ELSE ""

\* url.Values.Del
Del(q, k) == [x \in (DOMAIN q) \ {k} |-> q[x]]

\* main.go, lines 104-109
ParamsOf(q) ==
  LET rest == Del(Del(q, "job"), "timeout") IN [k \in DOMAIN rest |-> rest[k][1]]

JobValues == {"", "unknown", "daily", "broken", "deep"}

TimeoutValues == {"abc", "1s"}

ExtraValues ==
  {[k \in {"region"} |-> <<"eu", "us">>], [k \in {"zone"} |-> <<"z1">>]}

WithKey(q, k, v) == [x \in (DOMAIN q) \cup {k} |-> IF x = k THEN <<v>> ELSE q[x]]

Queries ==
  LET base == {EmptyMap} \cup ExtraValues
      withJob == base \cup {WithKey(q, "job", j) : q \in base, j \in JobValues}
  IN withJob \cup {WithKey(q, "timeout", t) : q \in withJob, t \in TimeoutValues}

\* durations in seconds
Minute == 60

defaultJobTimeout == 3 * Minute

\* time.ParseDuration
ParseDuration(t) ==
  IF t = "1s" THEN [err |-> FALSE, d |-> 1] ELSE [err |-> TRUE, d |-> 0]

\* main.go, lines 100-103
TimeoutOf(q) ==
  IF ParseDuration(Get(q, "timeout")).err THEN defaultJobTimeout
  ELSE ParseDuration(Get(q, "timeout")).d

(***************************************************************************)
(* The response writer.  The status line goes out with the first           *)
(* WriteHeader or the first Write (200), whichever comes first; a later    *)
(* WriteHeader changes nothing.  A handler that returns without either     *)
(* sends 200.                                                              *)
(***************************************************************************)
NoResponse == [wroteHeader |-> FALSE, status |-> 0, body |-> << >>]

WriteHeader(rs, code) ==
  IF rs.wroteHeader THEN rs ELSE [rs EXCEPT !.wroteHeader = TRUE, !.status = code]

\* the stream grows by the lines written since; writing nothing is no Write
WriteBody(rs, body) ==
  IF body = rs.body THEN rs ELSE [WriteHeader(rs, 200) EXCEPT !.body = body]

TextLine(t) == [kind |-> "TEXT", name |-> "", text |-> t]

Finish(rs) == WriteHeader(rs, 200)

\* main.go, lines 113-122 (jobsdir); the config variant drops runJob's error
AfterRunJob(v, rs, failed, expired) ==
  IF v = "jobsdir" /\ failed
    THEN Finish(WriteHeader(rs, IF expired THEN 504 ELSE 500))
    ELSE Finish(rs)

(***************************************************************************)
(* The request machine.  pc is where the handler of a request stands:      *)
(* idle, Folding (runJob called), Templating, Translating (the client      *)
(* iterates), Done, Failed.                                                *)
(***************************************************************************)
NoRun ==
  [table |-> "", name |-> "", params |-> EmptyMap, Query |-> << >>, IgnoreDims |-> << >>,
   Metrics |-> [f \in {} |-> MetricX], ref |-> "nil", rename |-> EmptyMap]

NoTrace ==
  [err |-> "", rendered |-> FALSE, submitted |-> << >>, md |-> << >>, nrows |-> 0,
   stats |-> << >>, observed |-> -1, timedOut |-> FALSE]

NoCtx == [timeout |-> 0, expired |-> FALSE]

InitReq(R) ==
  /\ variant \in {"jobsdir", "config"}
  /\ jobs = LoadedJobs
  /\ fatal = FALSE
  /\ pc = [r \in R |-> "idle"]
  /\ rq = [r \in R |-> EmptyMap]
  /\ resp = [r \in R |-> NoResponse]
  /\ job = [r \in R |-> NoRun]
  /\ ctx = [r \in R |-> NoCtx]
  /\ run = [r \in R |-> NoTrace]
  /\ served = 0
  /\ tr = [runs |-> << >>]
  /\ wr = [out |-> << >>, calls |-> << >>]

\* the rename map the row callback of request r reads
RenameOf(r) ==
  IF job[r].ref = "shared" THEN jobs[job[r].table].RenameDims.m ELSE job[r].rename

\* runJob's local copy of the Job: the rename map is shared with the table
\* unless it is nil.  Neither handleMetrics passes runJob's name argument;
\* the job name of the request is taken for it.
LocalJob(n, params, j, known) ==
  [table |-> IF known THEN n ELSE "", name |-> n, params |-> params,
   Query |-> j.Query, IgnoreDims |-> j.IgnoreDims, Metrics |-> j.Metrics,
   ref |-> IF j.RenameDims.nil THEN "nil" ELSE "shared", rename |-> EmptyMap]

Start(r, q, lj, timeout, rs) ==
  /\ pc' = [pc EXCEPT ![r] = "Folding"]
  /\ job' = [job EXCEPT ![r] = lj]
  /\ ctx' = [ctx EXCEPT ![r] = [timeout |-> timeout, expired |-> FALSE]]
  /\ resp' = [resp EXCEPT ![r] = rs]

Reject(r, rs) ==
  /\ pc' = [pc EXCEPT ![r] = "Failed"]
  /\ job' = [job EXCEPT ![r] = NoRun]
  /\ ctx' = [ctx EXCEPT ![r] = NoCtx]
  /\ resp' = [resp EXCEPT ![r] = Finish(rs)]

\* main.go, lines 86-112: handleMetrics of the jobs-directory variant
HandleJobsdir(r, q) ==
  IF Get(q, "job") = ""
    THEN Reject(r, WriteBody(WriteHeader(NoResponse, 400), << TextLine("job not specified\n") >>))
  ELSE IF Get(q, "job") \notin DOMAIN jobs
    THEN Reject(r, WriteBody(WriteHeader(NoResponse, 404), << TextLine("job not found\n") >>))
  ELSE Start(r, q, LocalJob(Get(q, "job"), ParamsOf(q), jobs[Get(q, "job")], TRUE),
             TimeoutOf(q), NoResponse)

\* main.go, lines 196-211: handleMetrics of the single-config variant; the
\* unknown-job branch does not return
HandleConfig(r, q) ==
  IF Get(q, "job") = ""
    THEN Reject(r, WriteBody(WriteHeader(NoResponse, 400), << TextLine("missing job parameter") >>))
  ELSE IF Get(q, "job") \notin DOMAIN jobs
    THEN Start(r, q, LocalJob(Get(q, "job"), EmptyMap, ZeroJob, FALSE), defaultJobTimeout,
               WriteBody(WriteHeader(NoResponse, 404), << TextLine("job not found") >>))
  ELSE Start(r, q, LocalJob(Get(q, "job"), EmptyMap, jobs[Get(q, "job")], TRUE),
             defaultJobTimeout, NoResponse)

\* a request arrives and its handler runs up to the call of runJob
HandleMetrics(r, q) ==
  /\ ~fatal
  /\ pc[r] \in {"idle", "Done", "Failed"}
  /\ served < MaxServed
  /\ served' = served + 1
  /\ rq' = [rq EXCEPT ![r] = q]
  /\ run' = [run EXCEPT ![r] = NoTrace]
  /\ IF variant = "jobsdir" THEN HandleJobsdir(r, q) ELSE HandleConfig(r, q)
  /\ UNCHANGED << variant, jobs, fatal, tr, wr >>

\* another request holds the same shared rename map inside runJob
SharesMapWith(r) ==
  {o \in (DOMAIN pc) \ {r} :
     /\ pc[o] \in {"Folding", "Templating", "Translating"}
     /\ job[o].ref = "shared" /\ job[r].ref = "shared"
     /\ job[o].table = job[r].table}

\* exporter.go, lines 82-87
RunJobFold(r) ==
  /\ ~fatal
  /\ pc[r] = "Folding"
  /\ pc' = [pc EXCEPT ![r] = "Templating"]
  /\ IF job[r].ref = "shared"
       THEN /\ jobs' = [jobs EXCEPT ![job[r].table].RenameDims =
                          MkMap(FoldIgnoreDims(jobs[job[r].table].RenameDims, job[r].IgnoreDims))]
            /\ job' = job
       ELSE /\ job' = [job EXCEPT ![r].ref = "local",
                                  ![r].rename = FoldIgnoreDims(NilMap, job[r].IgnoreDims)]
            /\ jobs' = jobs
  /\ UNCHANGED << variant, fatal, rq, resp, ctx, run, served, tr, wr >>

\* exporter.go, line 86, while another goroutine reads or writes the same
\* map: the runtime may stop the process ("concurrent map writes")
RunJobFoldRace(r) ==
  /\ ~fatal
  /\ pc[r] = "Folding"
  /\ job[r].IgnoreDims # << >>
  /\ SharesMapWith(r) # {}
  /\ fatal' = TRUE
  /\ UNCHANGED << variant, jobs, pc, rq, resp, job, ctx, run, served, tr, wr >>

\* runJob returns err to handleMetrics, which returns
ReturnErr(r) ==
  /\ pc' = [pc EXCEPT ![r] = "Failed"]
  /\ resp' = [resp EXCEPT ![r] = AfterRunJob(variant, resp[r], TRUE, ctx[r].expired)]

\* exporter.go, lines 88-104: the template, then client.Query.  The client
\* answers with the result metadata or with an error; it does not answer
\* with a result once the deadline has passed.
RunJobQuery(r, ok, md) ==
  /\ ~fatal
  /\ pc[r] = "Templating"
  /\ LET q == RenderQuery(job[r].Query, job[r].params) IN
       IF q.err
         THEN /\ ReturnErr(r)
              /\ run' = [run EXCEPT ![r].err = "template", ![r].rendered = q.rendered]
         ELSE IF ok /\ ~ctx[r].expired
           THEN /\ pc' = [pc EXCEPT ![r] = "Translating"]
                /\ resp' = resp
                /\ run' = [run EXCEPT ![r].rendered = q.rendered,
                                      ![r].submitted = Append(@, q.query),
                                      ![r].md = md]
           ELSE /\ ReturnErr(r)
                /\ run' = [run EXCEPT ![r].err = "query", ![r].rendered = q.rendered,
                                      ![r].submitted = Append(@, q.query),
                                      ![r].timedOut = ctx[r].expired,
                                      ![r].observed = IF ctx[r].expired
                                                        THEN Len(resp[r].body) ELSE -1]
  /\ UNCHANGED << variant, jobs, fatal, rq, job, ctx, served, tr, wr >>

ResultRows(md) ==
  {[Key |-> k, Values |-> [i \in 1..Len(md) |-> 2 + i], TS |-> 1500000000]
     : k \in {[d \in {"a", "b"} |-> IF d = "a" THEN IntV(1) ELSE StrV("x")],
              [d \in {"b"} |-> IntV(2)]}}

\* exporter.go, lines 105-131: the client hands one row to the callback
RowCallback(r, row) ==
  /\ ~fatal
  /\ pc[r] = "Translating"
  /\ run[r].nrows < MaxRows
  /\ \E order \in Orders(DOMAIN row.Key), eorders \in ExtraOrders(job[r].Metrics) :
       LET labels == RowLabels(RenameOf(r), row.Key, order) IN
       \E lorder \in Orders(DOMAIN labels) :
         resp' = [resp EXCEPT ![r] =
                    WriteBody(@, WriteRow(@.body, row, run[r].md, job[r].Metrics,
                                          labels, lorder, eorders))]
  /\ run' = [run EXCEPT ![r].nrows = @ + 1]
  /\ UNCHANGED << variant, jobs, fatal, pc, rq, job, ctx, served, tr, wr >>

StatsChoices ==
  {[NumPartitions |-> 5, NumSuccessfulPartitions |-> 3],
   [NumPartitions |-> 5, NumSuccessfulPartitions |-> 5],
   [NumPartitions |-> 0, NumSuccessfulPartitions |-> 0]}

\* time.Now().UnixNano()
NowChoices == {2000000000, 2000999999}

\* exporter.go, lines 135-138
AccountingMissingFirst(out, name, stats, nowNs) ==
  LET labels == [n \in {"job"} |-> Lab(name, "")]
      ts == nowNs \div 1000000
  IN writeMetric(
       writeMetric(out, stats.NumPartitions - stats.NumSuccessfulPartitions, ts,
                   metricMissingPartitions, labels, <<"job">>, << >>),
       stats.NumPartitions, ts, metricTotalPartitions, labels, <<"job">>, << >>)

Accounting(out, name, stats, nowNs) ==
  LET labels == [n \in {"job"} |-> Lab(name, "")]
      ts == nowNs \div 1000000
  IN writeMetric(
       writeMetric(out, stats.NumPartitions, ts, metricTotalPartitions, labels,
                   <<"job">>, << >>),
       stats.NumPartitions - stats.NumSuccessfulPartitions, ts,
       metricMissingPartitions, labels, <<"job">>, << >>)

\* exporter.go, lines 105 and 132-140, and the return of handleMetrics: the
\* iteration ends with the partition stats or with an error; it does not
\* end with the stats once the deadline has passed.
IterateReturn(r, ok, stats, nowNs) ==
  /\ ~fatal
  /\ pc[r] = "Translating"
  /\ IF ok /\ ~ctx[r].expired
       THEN /\ pc' = [pc EXCEPT ![r] = "Done"]
            /\ resp' = [resp EXCEPT ![r] =
                 AfterRunJob(variant,
                             WriteBody(@, Accounting(@.body, job[r].name, stats, nowNs)),
                             FALSE, ctx[r].expired)]
            /\ run' = [run EXCEPT ![r].stats = << stats >>]
       ELSE /\ ReturnErr(r)
            /\ run' = [run EXCEPT ![r].err = "iterate",
                                  ![r].timedOut = ctx[r].expired,
                                  ![r].observed = IF ctx[r].expired
                                                    THEN Len(resp[r].body) ELSE -1]
  /\ UNCHANGED << variant, jobs, fatal, rq, job, ctx, served, tr, wr >>

\* context.WithTimeout: the deadline of a running request passes
DeadlineFires(r) ==
  /\ ~fatal
  /\ pc[r] \in {"Folding", "Templating", "Translating"}
  /\ ~ctx[r].expired
  /\ ctx' = [ctx EXCEPT ![r].expired = TRUE]
  /\ UNCHANGED << variant, jobs, fatal, pc, rq, resp, job, run, served, tr, wr >>

(***************************************************************************)
(* Request specification: requests served one after the other.             *)
(***************************************************************************)
Init == InitReq({1})

Next ==
  \/ \E q \in Queries : HandleMetrics(1, q)
  \/ RunJobFold(1)
  \/ \E ok \in BOOLEAN, md \in FieldNameChoices : RunJobQuery(1, ok, md)
  \/ \E row \in ResultRows(run[1].md) : RowCallback(1, row)
  \/ \E ok \in BOOLEAN, stats \in StatsChoices, nowNs \in NowChoices :
       IterateReturn(1, ok, stats, nowNs)
  \/ DeadlineFires(1)

Spec == Init /\ [][Next]_vars

(***************************************************************************)
(* Concurrency specification: NumReq requests at once, one goroutine each, *)
(* their steps interleaved.                                                *)
(***************************************************************************)
Reqs == 1..NumReq

ConcQueries ==
  {[k \in {"job"} |-> <<"daily">>], [k \in {"job"} |-> <<"broken">>]}

InitConc == InitReq(Reqs)

NextConc ==
  \E r \in Reqs :
    \/ \E q \in ConcQueries : HandleMetrics(r, q)
    \/ RunJobFold(r)
    \/ RunJobFoldRace(r)
    \/ \E ok \in BOOLEAN : RunJobQuery(r, ok, <<"f1">>)
    \/ \E row \in ResultRows(run[r].md) : RowCallback(r, row)
    \/ \E ok \in BOOLEAN : IterateReturn(r, ok, CHOOSE st \in StatsChoices : st.NumSuccessfulPartitions = 3, 2000000000)
    \/ DeadlineFires(r)

SpecConc == InitConc /\ [][NextConc]_vars

(***************************************************************************)
(* Properties of the request machine (checked under Spec, C4 under         *)
(* SpecConc).                                                              *)
(***************************************************************************)
Returned(r) == pc[r] \in {"Done", "Failed"}

Exposition(body) == {i \in 1..Len(body) : body[i].kind # "TEXT"}

\* the response is the status and the one-line message, and runJob never ran
RejectedWith(r, code, msg) ==
  /\ pc[r] = "Failed"
  /\ resp[r].status = code
  /\ Len(resp[r].body) = 1
  /\ resp[r].body[1].kind = "TEXT"
  /\ resp[r].body[1].text \in {msg, msg \o "\n"}
  /\ ~run[r].rendered
  /\ run[r].submitted = << >>
  /\ Exposition(resp[r].body) = {}

\* C1: a request without a job gets 400 "job not specified", a request for a
\* job that is not in the table gets 404 "job not found", and either ends
\* Failed with no template rendered, no query submitted and no exposition
\* output.
C1_RejectedBeforeRun ==
  \A r \in DOMAIN pc : pc[r] # "idle" =>
    /\ Get(rq[r], "job") = "" => RejectedWith(r, 400, "job not specified")
    /\ (Get(rq[r], "job") # "" /\ Get(rq[r], "job") \notin DOMAIN LoadedJobs)
         => RejectedWith(r, 404, "job not found")

\* C2: (jobs-directory variant) a request whose deadline passes before the
\* client has finished is answered 504 whatever was streamed before, and
\* nothing is written once the client has reported the cancellation.
C2_DeadlineIs504 ==
  \A r \in DOMAIN pc :
    (variant = "jobsdir" /\ run[r].timedOut) =>
      /\ Returned(r) => resp[r].status = 504
      /\ Len(resp[r].body) = run[r].observed

\* C3: (jobs-directory variant) a request whose templating, query or
\* iteration fails before the deadline has passed is answered 500, with or
\* without samples streamed before the failure.
C3_FailureIs500 ==
  \A r \in DOMAIN pc :
    (variant = "jobsdir" /\ pc[r] = "Failed" /\ run[r].err # "" /\ ~ctx[r].expired)
      => resp[r].status = 500

\* C4: request handling never writes the job table or a Job Definition
\* reachable from it, so the table is as loaded and no two requests race on
\* a write.
C4_JobTableReadOnly == jobs = LoadedJobs /\ ~fatal

CompletenessNames ==
  {"zeno_query_exporter_zeno_partitions_total",
   "zeno_query_exporter_zeno_partitions_missing"}

CompletenessAt(body) ==
  {i \in 1..Len(body) : body[i].kind = "SAMPLE" /\ body[i].name \in CompletenessNames}

FixedPoint(n) ==
  CASE n = 0 -> "0.000000" [] n = 2 -> "2.000000" [] n = 5 -> "5.000000"
    [] OTHER -> "?"

Verbatim(n) ==
  CASE n = "daily" -> "SELECT {{.region}}"
    [] n = "broken" -> "SELECT {{"
    [] n = "deep" -> "SELECT {{.region.x}}"
    [] OTHER -> ""

\* C6: with no parameters runJob submits the job's template verbatim and
\* never fails on the template; with parameters it submits the rendered
\* template; when parsing or rendering fails it returns without calling the
\* client and without writing output.
C6_TemplateOrVerbatim ==
  \A r \in DOMAIN pc :
    pc[r] \in {"Translating", "Done", "Failed"} /\ job[r].name # "" =>
      LET params == job[r].params
          bad == job[r].table \in {"broken", "deep"}
      IN IF DOMAIN params = {}
           THEN /\ run[r].err # "template"
                /\ ~run[r].rendered
                /\ run[r].submitted = << Verbatim(job[r].table) >>
           ELSE IF bad
             THEN /\ run[r].err = "template"
                  /\ pc[r] = "Failed"
                  /\ run[r].submitted = << >>
                  /\ Exposition(resp[r].body) = {}
             ELSE /\ run[r].err # "template"
                  /\ run[r].submitted =
                       << IF "region" \in DOMAIN params
                            THEN "SELECT " \o params["region"]
                            ELSE "SELECT <no value>" >>

\* a malformed template went to the client as it is, no parameter given
C6_Witness ==
  /\ pc[1] = "Done"
  /\ job[1].table = "broken"
  /\ DOMAIN job[1].params = {}
  /\ run[1].submitted = << "SELECT {{" >>

(***************************************************************************)
(* Properties of the row translation (checked under SpecRow).              *)
(***************************************************************************)
Range(q) == {q[i] : i \in 1..Len(q)}

\* the rename table as loaded, with ignoreDims taking precedence
EffectiveAtLoad(d) ==
  IF d \in Range(tr.job0.IgnoreDims) THEN ""
  ELSE IF d \in DOMAIN tr.job0.RenameDims.m THEN tr.job0.RenameDims.m[d]
  ELSE "absent"

Samples(out) == {i \in 1..Len(out) : out[i].kind = "SAMPLE"}

LabelValues(labels) == [n \in DOMAIN labels |-> labels[n].v]

\* the samples of a run without the order of lines and of labels in a block
SampleSet(r) ==
  {[name |-> r.out[i].name, value |-> r.out[i].value, ts |-> r.out[i].ts,
    labels |-> Range(r.out[i].block)] : i \in Samples(r.out)}

\* C7: a dimension of the row key that the effective rename table does not
\* list is a label of every sample of the row, under its own name and with
\* the string form of its own value.
C7_PassThroughKept ==
  \A k \in 1..Len(tr.runs) : \A d \in DOMAIN tr.row.Key :
    EffectiveAtLoad(d) = "absent" =>
      /\ d \in DOMAIN tr.runs[k].labels
      /\ tr.runs[k].labels[d].v = Sprintv(tr.row.Key[d])
      /\ \A i \in Samples(tr.runs[k].out) :
           Pair(d, Sprintv(tr.row.Key[d])) \in Range(tr.runs[k].out[i].block)

\* C8: two translations of the same row under the same job and metadata give
\* the same set of samples with the same label names and values.
C8_TranslationDeterministic ==
  \A k1, k2 \in 1..Len(tr.runs) :
    /\ LabelValues(tr.runs[k1].labels) = LabelValues(tr.runs[k2].labels)
    /\ SampleSet(tr.runs[k1]) = SampleSet(tr.runs[k2])

\* C9: a dimension of the row key that the effective rename table maps to ""
\* (in renameDims or through ignoreDims) writes no label: no label comes from
\* it, and a label with its name exists only when another dimension of the
\* row is renamed to that name.
C9_IgnoredNeverLabel ==
  \A k \in 1..Len(tr.runs) : \A d \in DOMAIN tr.row.Key :
    EffectiveAtLoad(d) = "" =>
      /\ \A n \in DOMAIN tr.runs[k].labels : tr.runs[k].labels[n].src # d
      /\ \A i \in Samples(tr.runs[k].out) : \A j \in 1..Len(tr.runs[k].out[i].block) :
           tr.runs[k].out[i].block[j].n = d =>
             \E d2 \in (DOMAIN tr.row.Key) \ {d} :
               /\ EffectiveAtLoad(d2) = d
               /\ tr.runs[k].out[i].block[j].v = Sprintv(tr.row.Key[d2])

\* a row with a dimension dropped through ignoreDims although renameDims
\* names a label for it, next to a dimension that is kept, has been written
C9_Witness ==
  /\ Len(tr.runs) = MaxRuns
  /\ tr.job0.IgnoreDims = <<"a">>
  /\ ~tr.job0.RenameDims.nil
  /\ "a" \in DOMAIN tr.job0.RenameDims.m
  /\ tr.job0.RenameDims.m["a"] = "b"
  /\ DOMAIN tr.row.Key = {"a", "b"}
  /\ \E i \in Samples(tr.runs[1].out) : tr.runs[1].out[i].block[1].n = "b"

(***************************************************************************)
(* Properties of writeMetric (checked under SpecWriter).                   *)
(***************************************************************************)
\* C10: the stream is one three-line group per call: HELP and TYPE of the
\* call's descriptor, then the sample line; the sample line has a label
\* block iff the call has a row label or an extra label, and the block holds
\* the row labels first and the extra labels after them.
C10_ThreeLineGroups ==
  /\ Len(wr.out) = 3 * Len(wr.calls)
  /\ \A k \in 1..Len(wr.calls) :
       LET c == wr.calls[k]
           h == wr.out[3 * k - 2]
           t == wr.out[3 * k - 1]
           s == wr.out[3 * k]
           nl == Cardinality(DOMAIN c.labels)
           ne == Cardinality(DOMAIN c.meta.ExtraLabels.m)
       IN /\ h = [kind |-> "HELP", name |-> c.meta.Name, text |-> c.meta.Help]
          /\ t = [kind |-> "TYPE", name |-> c.meta.Name, text |-> c.meta.Type]
          /\ s.kind = "SAMPLE" /\ s.name = c.meta.Name
          /\ s.braces <=> (nl + ne > 0)
          /\ Len(s.block) = nl + ne
          /\ \A i \in 1..nl :
               s.block[i].n \in DOMAIN c.labels /\ s.block[i].v = c.labels[s.block[i].n].v
          /\ \A i \in (nl + 1)..(nl + ne) :
               /\ s.block[i].n \in DOMAIN c.meta.ExtraLabels.m
               /\ s.block[i].v = c.meta.ExtraLabels.m[s.block[i].n]
          /\ \A i, j \in 1..(nl + ne) : s.block[i].n = s.block[j].n => i = j

\* a sample without any label, written bare, followed by one with row labels
\* and extra labels
C10_Witness ==
  /\ Len(wr.calls) = 2
  /\ wr.calls[1].meta = MetricX /\ DOMAIN wr.calls[1].labels = {}
  /\ ~wr.out[3].braces
  /\ wr.calls[2].meta = MetricZ /\ DOMAIN wr.calls[2].labels = {"a", "b"}
  /\ Len(wr.out[6].block) = 4

====
